---- MODULE Spec2Model ----
(***************************************************************************)
(* wpcom-proxy-request (src/index.js): REST requests proxied through a     *)
(* hidden <iframe> with window.postMessage.  The module-level variables of *)
(* index.js are the state; request(), the iframe "load" callback, the      *)
(* window "message" callback and the FileReader callbacks are the actions. *)
(* Every handler runs to completion (single-threaded event loop), so each  *)
(* handler is one atomic action.                                           *)
(***************************************************************************)
EXTENDS Integers, Sequences, FiniteSets, TLC

\* ------------------------------------------------------------------ bounds
\* number of request() invocations in a behaviour
MaxCalls == 2
\* number of "load" events the proxy <iframe> fires in a behaviour
MaxLoads == 2

\* --------------------------------------------------------------- constants
proxyOrigin == "https://public-api.wordpress.com"
\* some other origin a message may declare
foreignOrigin == "https://evil.example"

\* statusCode value standing for an absent (undefined / null) status code
NoStatus == -1

\* the tokens uid() hands out, in order: uid() never repeats a token
UidTokens == <<"u1", "u2", "u3", "u4">>
uid(n) == UidTokens[n]
\* a uid-shaped token that request() never registers
StrayToken == "zz"
\* `requests` is a plain object literal: the `in` operator and the bracket
\* lookup also see the keys it inherits from Object.prototype
ObjectPrototypeKeys ==
    {"constructor", "hasOwnProperty", "isPrototypeOf", "propertyIsEnumerable",
     "toLocaleString", "toString", "valueOf", "__proto__",
     "__defineGetter__", "__defineSetter__", "__lookupGetter__", "__lookupSetter__"}

VARIABLES
    postStrings,             \* index.js:26  the channel transports only strings
    strictMode,              \* index.js runs as strict code (an ES module does; a
                             \* build that strips the imports into a script may not)
    cloneFileThrows,         \* environment: postMessage cannot clone a File (index.js:53-59)
    iframe,                  \* index.js:43  TRUE once install() created the <iframe>
    loaded,                  \* index.js:46
    buffered,                \* index.js:51  [kind: undefined | array | null, items]
    hasFileSerializationBug, \* index.js:60
    requests,                \* index.js:63  token -> index of its xhr
    params,                  \* the params object of the k-th request() call
    xhrs,                    \* the xhr of the k-th request() call, with what was dispatched on it
    readers,                 \* the closures of the postAsArrayBuffer invocations
    posts,                   \* the postMessage invocations on the iframe, in order
    submitted,               \* the calls handed to submitRequest, in order
    nLoads,                  \* "load" events fired so far
    messageEv,               \* the MessageEvent the last handler received (NoEvent: it was no message)
    dispatched,              \* the events the last handler dispatched, in order
    thrown                   \* the last handler ended by an uncaught exception

vars == <<postStrings, strictMode, cloneFileThrows, iframe, loaded, buffered,
          hasFileSerializationBug, requests, params, xhrs, readers, posts,
          submitted, nLoads, messageEv, dispatched, thrown>>

\* ------------------------------------------------------------- parameters
\* A formData entry is [name, value]; the value is a DOM File, a plain
\* string, or the object fileToArrayBuffer produces for a File.
FILE == "File"
TEXT == "text"
CONTENTS == "{fileContents,fileName,mimeType}"

isFile(v) == v = FILE

hasFile(p) ==
    /\ ~p.str
    /\ Len(p.formData) > 0
    /\ \E i \in 1..Len(p.formData) : isFile(p.formData[i])

\* JSON.stringify(params): a File serializes as "{}" and so does the
\* ArrayBuffer of read contents, a function-valued field is left out, and the
\* result is a string
StringifyValue(v) ==
    IF v = FILE THEN "{}"
    ELSE IF v = CONTENTS THEN "{fileContents:{},fileName,mimeType}"
    ELSE v

Stringify(p) ==
    [p EXCEPT !.formData = [i \in 1..Len(p.formData) |-> StringifyValue(p.formData[i])],
              !.func = FALSE,
              !.str = TRUE]

\* iframe.contentWindow.postMessage( data, proxyOrigin ) throws a DataCloneError
\* when the structured clone of `data` fails: on a function anywhere in it, and
\* on a File where the browser has the File serialization bug.  A channel that
\* transports only strings converts `data` with toString and never throws.
PostMessageThrows(data) ==
    /\ ~postStrings
    /\ ~data.str
    /\ \/ data.func
       \/ cloneFileThrows /\ \E i \in 1..Len(data.formData) : isFile(data.formData[i])

\* One postMessage invocation, as recorded in `posts`.
PostRecord(k, via, data) ==
    [call |-> k, via |-> via, data |-> data, threw |-> PostMessageThrows(data)]

\* ----------------------------------------------------- postAsArrayBuffer
\* The mutable state a submission works on:
\*   [params, bug (hasFileSerializationBug), readers, posts, submitted, thrown]

\* postAsArrayBuffer's inner postMessage(): posts the params object itself
FallbackPostMessage(s, k) ==
    LET rec == PostRecord(k, "postAsArrayBuffer", s.params[k])
    IN  [s EXCEPT !.posts = Append(@, rec), !.thrown = rec.threw]

\* postAsArrayBuffer( params ): one FileReader per File entry, all started in
\* the same loop; `count` counts the reads started
postAsArrayBuffer(s, k) ==
    LET formData == s.params[k].formData
        files == {i \in 1..Len(formData) : isFile(formData[i])}
        closure == [call |-> k, count |-> Cardinality(files), called |-> FALSE,
                    started |-> files, pending |-> files]
        s1 == [s EXCEPT !.readers = Append(@, closure)]
    IN  IF closure.count = 0 THEN FallbackPostMessage(s1, k) ELSE s1

\* --------------------------------------------------------- submitRequest
\* a direct attempt whose catch swallows the exception of a call without a File
DirectSubmitSwallows(s, k) ==
    LET p1 == [s.params[k] EXCEPT !.success = TRUE]
        rec == PostRecord(k, "submitRequest", p1)
        s1 == [s EXCEPT !.params[k] = p1, !.posts = Append(@, rec)]
    IN  IF postStrings THEN s
        ELSE IF rec.threw /\ hasFile(p1)
             THEN postAsArrayBuffer([s1 EXCEPT !.bug = TRUE], k)
             ELSE s1

\* the direct attempt of submitRequest (the try block and its catch)
DirectSubmit(s, k) ==
    LET p == s.params[k]
    IN  IF postStrings
        THEN \* params is now the string JSON.stringify( params )
             IF strictMode
             THEN \* `params.success = true` on a string primitive is a TypeError;
                  \* hasFile( <string> ) is false, so the catch rethrows it
                  [s EXCEPT !.thrown = TRUE]
             ELSE \* the assignment is dropped and the string is posted
                  [s EXCEPT !.posts = Append(@, PostRecord(k, "submitRequest", Stringify(p)))]
        ELSE LET p1 == [p EXCEPT !.success = TRUE]
                 rec == PostRecord(k, "submitRequest", p1)
                 s1 == [s EXCEPT !.params[k] = p1, !.posts = Append(@, rec)]
             IN  IF ~rec.threw THEN s1
                 ELSE IF hasFile(p1)
                      THEN postAsArrayBuffer([s1 EXCEPT !.bug = TRUE], k)
                      ELSE [s1 EXCEPT !.thrown = TRUE]

\* a submitRequest that does not consult hasFileSerializationBug
submitRequestDirectOnly(s, k) ==
    DirectSubmit([s EXCEPT !.submitted = Append(@, k)], k)

submitRequest(s, k) ==
    LET s0 == [s EXCEPT !.submitted = Append(@, k)]
    IN  IF s0.bug /\ hasFile(s0.params[k])
        THEN postAsArrayBuffer(s0, k)
        ELSE DirectSubmit(s0, k)

\* the loop of onload over buffered[ from .. ]: an exception leaves the loop
RECURSIVE FlushFrom(_, _, _)
FlushFrom(s, items, from) ==
    IF from > Len(items) \/ s.thrown THEN s
    ELSE FlushFrom(submitRequest(s, items[from]), items, from + 1)

Work == [params |-> params, bug |-> hasFileSerializationBug, readers |-> readers,
         posts |-> posts, submitted |-> submitted, thrown |-> FALSE]

\* ------------------------------------------------------ events on an xhr
\* xhr.dispatchEvent( "load" ): the load counter of the xhr, and the _onLoad
\* wrapper request() bound when a callback was given
DispatchLoad(xs, k) ==
    [xs EXCEPT ![k].load = @ + 1,
               ![k].called = IF xs[k].fn THEN TRUE ELSE @,
               ![k].fnCalls = IF xs[k].fn /\ ~xs[k].called THEN @ + 1 ELSE @]

\* xhr.dispatchEvent( "error" ): the error counter, and the onError wrapper
DispatchError(xs, k) ==
    [xs EXCEPT ![k].error = @ + 1,
               ![k].called = IF xs[k].fn THEN TRUE ELSE @,
               ![k].fnCalls = IF xs[k].fn /\ ~xs[k].called THEN @ + 1 ELSE @]

Event(type, k, upload, detail) ==
    [type |-> type, target |-> k, upload |-> upload, detail |-> detail]

\* -------------------------------------------------------------- onmessage
\* `id in requests`: own keys and the keys inherited from Object.prototype
InRequests(reqs, id) == id \in DOMAIN reqs \/ id \in ObjectPrototypeKeys

\* a dispatcher that leaves the entry in `requests`
DeleteRequestSkipped(reqs, id) == reqs

\* `delete requests[id]`
DeleteRequest(reqs, id) == [t \in DOMAIN reqs \ {id} |-> reqs[t]]

\* a dispatcher without the origin safeguard
OriginMismatchUnchecked(ev) == FALSE

\* messageEv.origin !== proxyOrigin
OriginMismatch(ev) == ev.origin # proxyOrigin

\* data after `if ( postStrings && 'string' === typeof data ) JSON.parse`:
\* TRUE when onmessage goes on with a string
StaysString(data) == data.str /\ ~postStrings

\* the elements data[0..length-1] onmessage indexes: the array itself, or the
\* characters of a JSON text the handler did not parse (first and last shown)
Elements(data) ==
    IF StaysString(data)
    THEN IF data.kind = "array" THEN <<"[", ",", "]">> ELSE <<"{", ":", "}">>
    ELSE data.array

\* `null == statusCode || 2 === Math.floor( statusCode / 100 )`
IsSuccess(statusCode) == statusCode = NoStatus \/ statusCode \div 100 = 2

\* `if ( body && headers ) body._headers = headers`
WithHeaders(body, headers) ==
    IF ~body.null /\ headers
    THEN [body EXCEPT !.fields = ("_headers" :> TRUE) @@ @]
    ELSE body

\* toUpperCase() of one character of [a-z]
UpperCase ==
    [c \in {"a", "b", "c", "d", "e", "f", "g", "h", "i", "j", "k", "l", "m",
            "n", "o", "p", "q", "r", "s", "t", "u", "v", "w", "x", "y", "z"} |->
        CASE c = "a" -> "A" [] c = "b" -> "B" [] c = "c" -> "C" [] c = "d" -> "D"
          [] c = "e" -> "E" [] c = "f" -> "F" [] c = "g" -> "G" [] c = "h" -> "H"
          [] c = "i" -> "I" [] c = "j" -> "J" [] c = "k" -> "K" [] c = "l" -> "L"
          [] c = "m" -> "M" [] c = "n" -> "N" [] c = "o" -> "O" [] c = "p" -> "P"
          [] c = "q" -> "Q" [] c = "r" -> "R" [] c = "s" -> "S" [] c = "t" -> "T"
          [] c = "u" -> "U" [] c = "v" -> "V" [] c = "w" -> "W" [] c = "x" -> "X"
          [] c = "y" -> "Y" [] c = "z" -> "Z"]

\* str.replace( /((^|_)[a-z])/g, $1 => $1.toUpperCase().replace( '_', '' ) ),
\* from character i on: a lowercase letter at the start of the string, or one
\* that follows an underscore (which is dropped), is put in upper case
RECURSIVE TitleFrom(_, _)
TitleFrom(str, i) ==
    IF i > Len(str) THEN ""
    ELSE LET c == SubSeq(str, i, i)
             d == IF i < Len(str) THEN SubSeq(str, i + 1, i + 1) ELSE ""
         IN  IF i = 1 /\ c \in DOMAIN UpperCase
             THEN UpperCase[c] \o TitleFrom(str, i + 1)
             ELSE IF c = "_" /\ d \in DOMAIN UpperCase
                  THEN UpperCase[d] \o TitleFrom(str, i + 2)
                  ELSE c \o TitleFrom(str, i + 1)

\* toTitle( str ); the `error` field of a body holds a string
toTitle(str) == IF str = "" THEN "" ELSE TitleFrom(str, 1)

\* err = new Error(); err.statusCode = statusCode; for ( i in body ) err[i] = body[i];
\* if ( body.error ) err.name = toTitle( body.error ) + 'Error'
ErrorOf(statusCode, body) ==
    LET err == body.fields @@ ("statusCode" :> statusCode)
    IN  IF "error" \in DOMAIN body.fields /\ body.fields["error"] # ""
        THEN ("name" :> (toTitle(body.fields["error"]) \o "Error")) @@ err
        ELSE err

Unchanged(reqs, xs) ==
    [requests |-> reqs, xhrs |-> xs, dispatched |-> <<>>, thrown |-> FALSE]

\* a dispatcher that sends every progress event to the xhr itself
onprogressToHandle(reqs, xs, data) ==
    IF data.callbackId \in DOMAIN reqs
    THEN [Unchanged(reqs, xs) EXCEPT
             !.dispatched = <<Event("progress", reqs[data.callbackId], FALSE, data.kind)>>]
    ELSE Unchanged(reqs, xs)

\* a dispatcher that finds the xhr of a progress notification by its token
\* alone, registered or not
onprogressUnregistered(reqs, xs, data) ==
    IF \E k \in 1..Len(xs) : uid(k) = data.callbackId
    THEN [Unchanged(reqs, xs) EXCEPT
             !.dispatched = <<Event("progress",
                                    CHOOSE k \in 1..Len(xs) : uid(k) = data.callbackId,
                                    data.upload, data.kind)>>]
    ELSE Unchanged(reqs, xs)

\* a dispatcher that takes a progress notification for the end of the call
onprogressSettles(reqs, xs, data) ==
    IF data.callbackId \in DOMAIN reqs
    THEN [Unchanged([t \in DOMAIN reqs \ {data.callbackId} |-> reqs[t]], xs) EXCEPT
             !.dispatched = <<Event("progress", reqs[data.callbackId], data.upload, data.kind)>>]
    ELSE Unchanged(reqs, xs)

\* onprogress( data )
onprogress(reqs, xs, data) ==
    IF data.callbackId \in DOMAIN reqs
    THEN [Unchanged(reqs, xs) EXCEPT
             !.dispatched = <<Event("progress", reqs[data.callbackId], data.upload, data.kind)>>]
    ELSE IF data.callbackId \in ObjectPrototypeKeys
         THEN \* requests[callbackId] is a function of Object.prototype: it has
              \* no `upload` and no dispatchEvent, the call is a TypeError
              [Unchanged(reqs, xs) EXCEPT !.thrown = TRUE]
         ELSE Unchanged(reqs, xs)

\* the part of onmessage after the token was found in `requests`
Settle(reqs, xs, elems, id) ==
    IF id \notin DOMAIN reqs
    THEN \* an inherited key: xhr is a function, xhr.params is undefined and
         \* `xhr.params.metaAPI` is a TypeError
         [Unchanged(reqs, xs) EXCEPT !.thrown = TRUE]
    ELSE LET k == reqs[id]
             reqs1 == DeleteRequest(reqs, id)
             statusCode == elems[2]
             body == WithHeaders(elems[1], elems[3])
         IN  IF IsSuccess(statusCode)
             THEN [requests |-> reqs1, xhrs |-> DispatchLoad(xs, k),
                   dispatched |-> <<Event("load", k, FALSE, body)>>, thrown |-> FALSE]
             ELSE IF body.null
                  THEN \* `body.error` on a null body is a TypeError
                       [Unchanged(reqs1, xs) EXCEPT !.thrown = TRUE]
                  ELSE [requests |-> reqs1, xhrs |-> DispatchError(xs, k),
                        dispatched |-> <<Event("error", k, FALSE, ErrorOf(statusCode, body))>>,
                        thrown |-> FALSE]

onmessage(reqs, xs, ev) ==
    IF OriginMismatch(ev) THEN Unchanged(reqs, xs)
    ELSE IF ev.data.kind = "null" THEN Unchanged(reqs, xs)
    ELSE IF ~StaysString(ev.data) /\ ev.data.kind = "progress"
         THEN onprogress(reqs, xs, ev.data)
    ELSE IF ~StaysString(ev.data) /\ ev.data.kind = "object"
         THEN Unchanged(reqs, xs)
    ELSE LET elems == Elements(ev.data)
             id == elems[Len(elems)]
         IN  IF Len(elems) = 0 THEN Unchanged(reqs, xs)
             ELSE IF ~InRequests(reqs, id) THEN Unchanged(reqs, xs)
             ELSE Settle(reqs, xs, elems, id)

\* ----------------------------------------------------------------- inputs
\* the formData lists request() is called with: none, a field and one
\* attachment, two attachments
FormDatas == {<<>>, <<TEXT, FILE>>}
AttachmentFormDatas == {<<>>, <<FILE, FILE>>}

NoFields == [f \in {} |-> TRUE]
NullBody == [null |-> TRUE, fields |-> NoFields]
ObjectBody(fields) == [null |-> FALSE, fields |-> fields]

NoData == [kind |-> "null", str |-> FALSE, callbackId |-> "", upload |-> FALSE, array |-> <<>>]
ObjectData(str) == [NoData EXCEPT !.kind = "object", !.str = str]
ProgressData(str, id, upload) ==
    [NoData EXCEPT !.kind = "progress", !.str = str, !.callbackId = id, !.upload = upload]
ArrayData(str, body, statusCode, headers, id) ==
    [NoData EXCEPT !.kind = "array", !.str = str, !.array = <<body, statusCode, headers, id>>]

MessageEvent(origin, data) == [origin |-> origin, data |-> data]
NoEvent == MessageEvent("", NoData)

\* the tokens an inbound message may carry
\* the inherited keys the inbound messages carry: one whose value is a
\* function and the one whose value is Object.prototype itself
InheritedTokens == {"toString", "__proto__"}

Ids == {uid(n) : n \in 1..MaxCalls} \cup {StrayToken} \cup InheritedTokens

\* ---------------------------------------------------------------- actions
Init ==
    /\ postStrings \in BOOLEAN
    /\ strictMode \in (IF postStrings THEN BOOLEAN ELSE {TRUE})
    /\ cloneFileThrows \in BOOLEAN
    /\ iframe = FALSE
    /\ loaded = FALSE
    /\ buffered = [kind |-> "undefined", items |-> <<>>]
    /\ hasFileSerializationBug = FALSE
    /\ requests = [t \in {} |-> 0]
    /\ params = <<>>
    /\ xhrs = <<>>
    /\ readers = <<>>
    /\ posts = <<>>
    /\ submitted = <<>>
    /\ nLoads = 0
    /\ messageEv = NoEvent
    /\ dispatched = <<>>
    /\ thrown = FALSE

Environment == <<postStrings, strictMode, cloneFileThrows>>

\* a request() that stores the xhr only when it submits at once
RegisterWhenLoaded(reqs, id, k) == IF loaded THEN (id :> k) @@ reqs ELSE reqs

\* `requests[id] = xhr`
Register(reqs, id, k) == (id :> k) @@ reqs

\* a request() that submits only once the buffer was flushed
SubmitsNowOnceFlushed == loaded /\ buffered.kind = "null"

\* `if ( loaded )` of request(): submit now, or buffer
SubmitsNow == loaded

\* request( params, fn ), with install() on the first call
Request(formData, func, fn) ==
    /\ Len(params) < MaxCalls
    /\ LET k == Len(params) + 1
           id == uid(k)
           p == [callback |-> id, formData |-> formData, func |-> func,
                 success |-> FALSE, str |-> FALSE]
           xhr == [params |-> k, fn |-> fn, called |-> FALSE, fnCalls |-> 0,
                   load |-> 0, error |-> 0]
           installed == IF iframe THEN buffered ELSE [kind |-> "array", items |-> <<>>]
           s0 == [Work EXCEPT !.params = Append(@, p)]
           s1 == IF SubmitsNow THEN submitRequest(s0, k) ELSE s0
       IN  /\ iframe' = TRUE
           /\ requests' = Register(requests, id, k)
           /\ xhrs' = Append(xhrs, xhr)
           /\ buffered' = IF SubmitsNow THEN installed
                          ELSE [installed EXCEPT !.items = Append(@, k)]
           /\ params' = s1.params
           /\ hasFileSerializationBug' = s1.bug
           /\ readers' = s1.readers
           /\ posts' = s1.posts
           /\ submitted' = s1.submitted
           /\ thrown' = s1.thrown
    /\ messageEv' = NoEvent
    /\ dispatched' = <<>>
    /\ UNCHANGED <<Environment, loaded, nLoads>>

\* an onload that flips readiness at every load event
LoadedToggled == ~loaded

\* `loaded = true` of onload
LoadedOnLoad == TRUE

\* onload: the "load" event of the proxy <iframe>
\* (a load event that finds readiness set and no buffer changes nothing)
OnLoad ==
    /\ iframe
    /\ nLoads < MaxLoads
    /\ ~loaded \/ buffered.kind = "array"
    /\ nLoads' = nLoads + 1
    /\ loaded' = LoadedOnLoad
    /\ LET s1 == IF buffered.kind = "array" THEN FlushFrom(Work, buffered.items, 1) ELSE Work
       IN  /\ params' = s1.params
           /\ hasFileSerializationBug' = s1.bug
           /\ readers' = s1.readers
           /\ posts' = s1.posts
           /\ submitted' = s1.submitted
           /\ thrown' = s1.thrown
           /\ buffered' = IF buffered.kind = "array" /\ ~s1.thrown
                          THEN [kind |-> "null", items |-> <<>>]
                          ELSE buffered
    /\ messageEv' = NoEvent
    /\ dispatched' = <<>>
    /\ UNCHANGED <<Environment, iframe, requests, xhrs>>

\* onmessage: a "message" event on window (bound by install())
OnMessage(ev) ==
    /\ iframe
    /\ LET out == onmessage(requests, xhrs, ev)
       IN  /\ requests' = out.requests
           /\ xhrs' = out.xhrs
           /\ dispatched' = out.dispatched
           /\ thrown' = out.thrown
    /\ messageEv' = ev
    /\ UNCHANGED <<Environment, iframe, loaded, buffered, hasFileSerializationBug,
                   params, readers, posts, submitted, nLoads>>

\* reader.onload of the FileReader that closure r started for formData[i]:
\* onLoad( null, file, i ) of postAsArrayBuffer
ReaderOnload(r, i) ==
    /\ r \in 1..Len(readers)
    /\ i \in readers[r].pending
    /\ LET c == readers[r]
           k == c.call
           s0 == [Work EXCEPT !.readers[r].pending = @ \ {i}]
           s1 == [s0 EXCEPT !.params[k].formData[i] = CONTENTS,
                            !.readers[r].count = @ - 1]
           s2 == IF c.called THEN s0
                 ELSE IF s1.readers[r].count = 0 THEN FallbackPostMessage(s1, k)
                 ELSE s1
       IN  /\ params' = s2.params
           /\ readers' = s2.readers
           /\ posts' = s2.posts
           /\ submitted' = s2.submitted
           /\ thrown' = s2.thrown
    /\ messageEv' = NoEvent
    /\ dispatched' = <<>>
    /\ UNCHANGED <<Environment, iframe, loaded, buffered, hasFileSerializationBug,
                   requests, xhrs, nLoads>>

\* the FileReader of closure r fails to read formData[i]: its "error" event
\* finds no handler, because fileToArrayBuffer assigned `reader.onError`, which
\* is not the `onerror` event handler property
ReaderError(r, i) ==
    /\ r \in 1..Len(readers)
    /\ i \in readers[r].pending
    /\ readers' = [readers EXCEPT ![r].pending = @ \ {i}]
    /\ messageEv' = NoEvent
    /\ dispatched' = <<>>
    /\ thrown' = FALSE
    /\ UNCHANGED <<Environment, iframe, loaded, buffered, hasFileSerializationBug,
                   requests, params, xhrs, posts, submitted, nLoads>>

\* ---------------------------------------------------------- specifications
\* Spec: calls with and without an attachment and with and without a value the
\* structured clone rejects, every environment, and the successful replies to
\* the calls (SpecInbound has the other inbound messages).
SpecMessages ==
    {MessageEvent(proxyOrigin, ArrayData(FALSE, ObjectBody(NoFields), 200, FALSE, uid(n))) :
        n \in 1..MaxCalls}

Next ==
    \/ \E formData \in FormDatas, func \in BOOLEAN : Request(formData, func, TRUE)
    \/ OnLoad
    \/ \E ev \in SpecMessages : OnMessage(ev)
    \/ \E r \in 1..Len(readers), i \in 1..2 : ReaderOnload(r, i)
    \/ \E r \in 1..Len(readers), i \in 1..2 : ReaderError(r, i)

Spec == Init /\ [][Next]_vars

\* SpecAttachments: as Spec, with calls that carry two attachments.
NextAttachments ==
    \/ \E formData \in AttachmentFormDatas, func \in BOOLEAN : Request(formData, func, TRUE)
    \/ OnLoad
    \/ \E ev \in SpecMessages : OnMessage(ev)
    \/ \E r \in 1..Len(readers), i \in 1..2 : ReaderOnload(r, i)
    \/ \E r \in 1..Len(readers), i \in 1..2 : ReaderError(r, i)

SpecAttachments == Init /\ [][NextAttachments]_vars

\* SpecInbound: calls without attachments, and every shape of inbound message.
Uids == {uid(n) : n \in 1..MaxCalls}
StatusBody == ObjectBody("statusCode" :> 200)
ErrorBody == ObjectBody(("error" :> "invalid_input") @@ ("message" :> "bad"))
InboundStatuses == {NoStatus, 199, 200, 299, 300, 404}

Replies(origin, str, bodies, statuses, headers, ids) ==
    {MessageEvent(origin, ArrayData(str, b, c, headers, id)) :
        b \in bodies, c \in statuses, id \in ids}

Progresses(origin, str, ids) ==
    {MessageEvent(origin, ProgressData(str, id, u)) : id \in ids, u \in BOOLEAN}

InboundMessages ==
    \* from the proxy: replies to the first call over every status code, and
    \* over null bodies and bodies that carry a statusCode field
    Replies(proxyOrigin, FALSE, {ObjectBody(NoFields)}, InboundStatuses, FALSE, {uid(1)})
    \cup Replies(proxyOrigin, FALSE, {NullBody, StatusBody}, {NoStatus, 200, 404}, FALSE, {uid(1)})
    \* replies to the other calls
    \cup Replies(proxyOrigin, FALSE, {ObjectBody(NoFields)}, {200, 404}, FALSE, Uids)
    \* a failure reply whose body names the error
    \cup Replies(proxyOrigin, FALSE, {ErrorBody}, {400}, FALSE, {uid(1)})
    \* with headers
    \cup Replies(proxyOrigin, FALSE, {NullBody, ObjectBody(NoFields)}, {200}, TRUE, {uid(1)})
    \* replies that carry a token request() never registered
    \cup Replies(proxyOrigin, FALSE, {ObjectBody(NoFields)}, {200}, FALSE,
                 {StrayToken} \cup InheritedTokens)
    \* progress notifications
    \cup Progresses(proxyOrigin, FALSE, Ids)
    \* JSON texts
    \cup Replies(proxyOrigin, TRUE, {ObjectBody(NoFields)}, {200}, FALSE, {uid(1)})
    \cup Progresses(proxyOrigin, TRUE, {uid(1)})
    \* no data, and data that is neither a notification nor an array
    \cup {MessageEvent(proxyOrigin, NoData), MessageEvent(proxyOrigin, ObjectData(FALSE))}
    \* from another origin
    \cup Replies(foreignOrigin, FALSE, {ObjectBody(NoFields)}, {200}, FALSE, Uids)
    \cup Progresses(foreignOrigin, FALSE, {uid(1)})
    \cup {MessageEvent(foreignOrigin, NoData)}

InitInbound == Init /\ cloneFileThrows = FALSE

NextInbound ==
    \/ \E fn \in BOOLEAN : Request(<<>>, FALSE, fn)
    \/ OnLoad
    \/ \E ev \in InboundMessages : OnMessage(ev)

SpecInbound == InitInbound /\ [][NextInbound]_vars

\* SpecRegistry: calls with and without an attachment in a browser whose
\* postMessage rejects a File, with replies to the first call only, progress
\* notifications, and messages with a stray token or from another origin.
RegistryMessages ==
    Replies(proxyOrigin, FALSE, {ObjectBody(NoFields)}, {200, 404}, FALSE, {uid(1)})
    \cup Replies(proxyOrigin, FALSE, {ObjectBody(NoFields)}, {200}, FALSE, {StrayToken})
    \cup Progresses(proxyOrigin, FALSE, {uid(1), uid(2)})
    \cup Replies(foreignOrigin, FALSE, {ObjectBody(NoFields)}, {200}, FALSE, {uid(2)})

InitRegistry == Init /\ ~postStrings /\ cloneFileThrows

NextRegistry ==
    \/ \E formData \in FormDatas, func \in BOOLEAN : Request(formData, func, TRUE)
    \/ OnLoad
    \/ \E ev \in RegistryMessages : OnMessage(ev)
    \/ \E r \in 1..Len(readers), i \in 1..2 : ReaderOnload(r, i)
    \/ \E r \in 1..Len(readers), i \in 1..2 : ReaderError(r, i)

SpecRegistry == InitRegistry /\ [][NextRegistry]_vars

\* SpecBuffered: as Spec, with every call made before the first load event.
NextBuffered ==
    \/ /\ ~loaded
       /\ \E formData \in FormDatas, func \in BOOLEAN : Request(formData, func, TRUE)
    \/ OnLoad
    \/ \E ev \in SpecMessages : OnMessage(ev)
    \/ \E r \in 1..Len(readers), i \in 1..2 : ReaderOnload(r, i)
    \/ \E r \in 1..Len(readers), i \in 1..2 : ReaderError(r, i)

SpecBuffered == Init /\ [][NextBuffered]_vars

\* ------------------------------------------------------------------ claims
Calls == 1..Len(xhrs)

\* the token an inbound message refers to
TokenOf(data) ==
    IF data.kind = "array" THEN data.array[Len(data.array)] ELSE data.callbackId

CarriesToken(data) == data.kind \in {"array", "progress"}

\* the last handler was onmessage, on a message the proxy origin sent
\* (every other handler leaves NoEvent, whose origin is empty)
FromProxy == messageEv.origin = proxyOrigin

\* the message the last handler decoded is a reply: an array
DecodedReply == messageEv.data.kind = "array" /\ ~StaysString(messageEv.data)

\* C1: over any sequence of inbound messages, at most one load/error event is
\* dispatched on a call's xhr and its callback is invoked at most once: the
\* entry is deleted when the first reply is processed, so a second reply with
\* the same token dispatches nothing.
C1_CallbackAtMostOnce ==
    \A k \in Calls :
        /\ xhrs[k].fnCalls <= 1
        /\ xhrs[k].load + xhrs[k].error <= 1

\* a duplicate reply: the last message is a reply from the proxy for the token
\* of a call with a callback that was settled before, and nothing was dispatched
C1_Witness ==
    /\ FromProxy /\ DecodedReply
    /\ dispatched = <<>> /\ ~thrown
    /\ \E k \in Calls :
          /\ TokenOf(messageEv.data) = uid(k)
          /\ xhrs[k].fn /\ xhrs[k].fnCalls = 1
          /\ uid(k) \notin DOMAIN requests

\* C2: no reply removes a call from the registry without delivering exactly
\* one outcome: a call that is no longer registered has had exactly one load
\* or error event dispatched on its xhr.
C2_RemovalDeliversOutcome ==
    \A k \in Calls :
        uid(k) \notin DOMAIN requests => xhrs[k].load + xhrs[k].error = 1

\* C3: a reply for a registered token takes the success path iff its status
\* code is absent or within [200,299]; otherwise the failure object delivered
\* carries the status code of the reply, whatever the fields of the body.
C3_StatusClassification ==
    (FromProxy /\ DecodedReply /\ dispatched # <<>>) =>
        LET statusCode == messageEv.data.array[2]
            e == dispatched[1]
        IN  /\ e.type \in {"load", "error"}
            /\ e.type = "load" <=>
                  (statusCode = NoStatus \/ (200 <= statusCode /\ statusCode <= 299))
            /\ e.type = "error" => e.detail["statusCode"] = statusCode

\* C7: an inbound message from the proxy origin that refers to a token that was
\* never registered is a no-op: nothing thrown, nothing dispatched, and the
\* registry, the xhrs, the buffer and the two flags unchanged.
C7_UnknownTokenNoOp ==
    [][ ( /\ messageEv'.origin = proxyOrigin
          /\ CarriesToken(messageEv'.data)
          /\ \A k \in Calls : TokenOf(messageEv'.data) # uid(k) )
        => ( /\ ~thrown'
             /\ dispatched' = <<>>
             /\ requests' = requests
             /\ xhrs' = xhrs
             /\ buffered' = buffered
             /\ loaded' = loaded
             /\ hasFileSerializationBug' = hasFileSerializationBug ) ]_vars

\* C8: a message whose declared origin is not the proxy origin is ignored,
\* also when it carries a registered token: nothing is dispatched or thrown
\* and the registry and the xhrs are unchanged.
C8_ForeignOriginIgnored ==
    [][ messageEv'.origin = foreignOrigin
        => ( /\ dispatched' = <<>>
             /\ ~thrown'
             /\ requests' = requests
             /\ xhrs' = xhrs ) ]_vars

\* a foreign message carried a registered token, and the call is still
\* registered and unsettled
C8_Witness ==
    /\ messageEv.origin = foreignOrigin
    /\ CarriesToken(messageEv.data)
    /\ \E k \in Calls :
          /\ TokenOf(messageEv.data) = uid(k)
          /\ uid(k) \in DOMAIN requests
          /\ requests[uid(k)] = k
          /\ xhrs[k].load + xhrs[k].error = 0

\* how often call k occurs in a sequence of calls
RECURSIVE Count(_, _)
Count(k, seq) ==
    IF seq = <<>> THEN 0
    ELSE (IF Head(seq) = k THEN 1 ELSE 0) + Count(k, Tail(seq))

\* C4: when readiness fires with calls c1..cn in the buffer, exactly c1..cn
\* are handed to submitRequest, in that order, none skipped.
C4_FlushInOrder ==
    [][ (nLoads' = nLoads + 1 /\ buffered.kind = "array")
        => submitted' = submitted \o buffered.items ]_vars

\* C5: once readiness has fired, every call has been handed to submitRequest
\* exactly once and the buffer is discarded for good.
C5_FlushedExactlyOnce ==
    loaded =>
        /\ buffered.kind = "null"
        /\ \A k \in 1..Len(params) : Count(k, submitted) = 1

\* C6: a call made before readiness is appended to the buffer, is not handed
\* to submitRequest and nothing is posted before readiness; a call made after
\* readiness is handed to submitRequest by that request() invocation and the
\* buffer is left as it is.
C6_BufferingFollowsReadiness ==
    [][ Len(params') = Len(params) + 1
        => LET k == Len(params')
           IN  IF loaded
               THEN /\ submitted' = Append(submitted, k)
                    /\ buffered' = buffered
               ELSE /\ buffered'.kind = "array"
                    /\ buffered'.items = Append(buffered.items, k)
                    /\ submitted' = <<>>
                    /\ posts' = <<>>
                    /\ readers' = <<>> ]_vars

\* request() ran after readiness while an earlier call is still in the buffer
\* (the flush had stopped at an exception): the new call was submitted
C6_Witness ==
    /\ loaded
    /\ buffered.kind = "array" /\ buffered.items # <<>>
    /\ submitted # <<>>
    /\ submitted[Len(submitted)] = Len(params)
    /\ Count(Len(params), buffered.items) = 0

\* call k was posted to the channel: a postMessage invocation that returned
Posted(k) == \E n \in 1..Len(posts) : posts[n].call = k /\ ~posts[n].threw

Buffered(k) == buffered.kind = "array" /\ Count(k, buffered.items) > 0

\* C9: while a call is in the buffer or was posted and no reply for it has been
\* processed, its token is registered and maps to the xhr request() returned.
C9_RegisteredWhilePending ==
    \A k \in 1..Len(params) :
        ((Buffered(k) \/ Posted(k)) /\ xhrs[k].load + xhrs[k].error = 0)
            => (uid(k) \in DOMAIN requests /\ requests[uid(k)] = k)

\* a buffered call and a posted call, both registered and unsettled
C9_Witness ==
    /\ Len(params) = 2
    /\ Posted(1)
    /\ Buffered(2)
    /\ requests = (uid(1) :> 1) @@ (uid(2) :> 2)

\* the postMessage invocations that submit call k: the ones postAsArrayBuffer
\* makes, and the direct ones that returned
Submissions(k) ==
    {n \in 1..Len(posts) :
        posts[n].call = k /\ (posts[n].via = "postAsArrayBuffer" \/ ~posts[n].threw)}

\* C10: a call that postAsArrayBuffer took with two attachments is submitted to
\* the channel at most once, exactly once when both reads of a closure have
\* completed and not before, and with both attachments replaced by their contents.
C10_TwoAttachments ==
    \A r \in 1..Len(readers) :
        Cardinality(readers[r].started) = 2 =>
            LET k == readers[r].call
            IN  /\ Cardinality(Submissions(k)) <= 1
                /\ readers[r].count = 0 => Cardinality(Submissions(k)) = 1
                /\ (\A q \in 1..Len(readers) : readers[q].call = k => readers[q].count > 0)
                      => Submissions(k) = {}
                /\ \A n \in Submissions(k) :
                      \A i \in readers[r].started : posts[n].data.formData[i] = CONTENTS

\* the reads of closure r that ended by an error event: the reads that are no
\* longer pending, less the ones onLoad counted as completed
FailedReads(r) ==
    Cardinality(readers[r].started \ readers[r].pending)
        - (Cardinality(readers[r].started) - readers[r].count)

\* C11: when an attachment read of a call on the fallback path has failed, the
\* failure was delivered as the terminal error event on the xhr of that call.
C11_ReadFailureDelivered ==
    \A r \in 1..Len(readers) :
        FailedReads(r) > 0 => xhrs[readers[r].call].error >= 1

\* a read of call k has failed
ReadFailed(k) == \E r \in 1..Len(readers) : readers[r].call = k /\ FailedReads(r) > 0

\* C12: once an attachment read of a call has failed, no later step submits
\* that call to the channel, whatever the remaining reads do.
C12_NoSubmissionAfterReadFailure ==
    [][ \A k \in 1..Len(params) :
            ReadFailed(k) => Submissions(k)' = Submissions(k) ]_vars

\* the message the last handler decoded is a progress notification
DecodedProgress == messageEv.data.kind = "progress" /\ ~StaysString(messageEv.data)

\* C13: a progress notification from the proxy origin for a registered token
\* dispatches one progress event: to the upload target of that call's xhr when
\* its upload marker is set, to the xhr itself otherwise; the registry is
\* unchanged and no load/error event or callback is triggered.
C13_ProgressToItsTarget ==
    [][ ( /\ messageEv'.origin = proxyOrigin
          /\ messageEv'.data.kind = "progress"
          /\ ~StaysString(messageEv'.data)
          /\ messageEv'.data.callbackId \in DOMAIN requests )
        => ( /\ dispatched' = <<Event("progress", requests[messageEv'.data.callbackId],
                                      messageEv'.data.upload, "progress")>>
             /\ ~thrown'
             /\ requests' = requests
             /\ xhrs' = xhrs ) ]_vars

\* an upload notification for the second call, registered and unsettled, went
\* to the upload target of its xhr
C13_Witness ==
    /\ FromProxy /\ DecodedProgress
    /\ messageEv.data.upload
    /\ messageEv.data.callbackId = uid(2)
    /\ uid(2) \in DOMAIN requests
    /\ dispatched = <<Event("progress", 2, TRUE, "progress")>>
    /\ xhrs[2].fn /\ xhrs[2].fnCalls = 0

\* C14: a progress event is dispatched only on a call that is still registered
\* and has had no load or error event: no progress event follows the
\* processing of the reply of its call.
C14_NoProgressAfterTerminal ==
    \A n \in 1..Len(dispatched) :
        dispatched[n].type = "progress" =>
            /\ xhrs[dispatched[n].target].load + xhrs[dispatched[n].target].error = 0
            /\ uid(dispatched[n].target) \in DOMAIN requests

\* a progress notification from the proxy for a call whose reply was processed
\* before: nothing was dispatched
C14_Witness ==
    /\ FromProxy /\ DecodedProgress
    /\ dispatched = <<>> /\ ~thrown
    /\ \E k \in Calls :
          /\ messageEv.data.callbackId = uid(k)
          /\ xhrs[k].load + xhrs[k].error = 1

\* a direct attempt of submitRequest at a payload with a File
DirectAttemptWithFile(rec) == rec.via = "submitRequest" /\ hasFile(rec.data)

\* C15: hasFileSerializationBug is set by the first direct postMessage that
\* throws on a call with a File, and that call is handed to postAsArrayBuffer;
\* the flag is never cleared; once it is set, a call with a File that is
\* submitted goes to postAsArrayBuffer without a direct attempt, and no payload
\* that still holds a File is posted.
C15_FlagRoutesAttachments ==
    [][ LET new == (Len(posts) + 1)..Len(posts')
            threw == {n \in new : DirectAttemptWithFile(posts'[n]) /\ posts'[n].threw}
        IN  /\ hasFileSerializationBug => hasFileSerializationBug'
            /\ hasFileSerializationBug' <=> (hasFileSerializationBug \/ threw # {})
            /\ \A n \in threw :
                  \E r \in (Len(readers) + 1)..Len(readers') :
                      readers'[r].call = posts'[n].call
            /\ ~hasFileSerializationBug => Cardinality(threw) <= 1
            /\ hasFileSerializationBug =>
                  /\ \A n \in new : ~hasFile(posts'[n].data)
                  /\ \A i \in (Len(submitted) + 1)..Len(submitted') :
                        hasFile(params'[submitted'[i]]) =>
                            \E r \in (Len(readers) + 1)..Len(readers') :
                                readers'[r].call = submitted'[i] ]_vars

\* the flag is set, the first call made the one direct attempt that threw, and
\* the second call, with a File too, went to postAsArrayBuffer with no attempt
C15_Witness ==
    /\ hasFileSerializationBug
    /\ Len(readers) = 2 /\ readers[1].call = 1 /\ readers[2].call = 2
    /\ {n \in 1..Len(posts) : DirectAttemptWithFile(posts[n])} = {1}
    /\ posts[1].call = 1 /\ posts[1].threw

\* C16: when the direct attempt throws for a call without a File (postMessage
\* rejects the payload, or the payload cannot be stamped), the exception leaves
\* submitRequest, hasFileSerializationBug keeps its value and no
\* postAsArrayBuffer closure is started for the call.
C16_UnrelatedThrowPropagates ==
    [][ LET n == Len(posts')
            m == Len(submitted')
            started == {readers'[r].call : r \in (Len(readers) + 1)..Len(readers')}
        IN  /\ ( /\ n > Len(posts)
                 /\ posts'[n].via = "submitRequest"
                 /\ posts'[n].threw
                 /\ ~hasFile(posts'[n].data) )
                => ( /\ thrown'
                     /\ posts'[n].call \notin started
                     /\ n = Len(posts) + 1 =>
                           hasFileSerializationBug' = hasFileSerializationBug )
            /\ ( /\ postStrings /\ strictMode
                 /\ m > Len(submitted)
                 /\ ~hasFile(params'[submitted'[m]]) )
                => ( /\ thrown'
                     /\ started = {}
                     /\ hasFileSerializationBug' = hasFileSerializationBug ) ]_vars

\* request() after readiness, for a call without a File that postMessage
\* rejected: the exception left request(), the flag is still false and no
\* closure exists
C16_Witness ==
    /\ loaded /\ buffered.kind = "null"
    /\ thrown
    /\ ~hasFileSerializationBug
    /\ readers = <<>>
    /\ Len(posts) = 2
    /\ posts[2].via = "submitRequest" /\ posts[2].threw /\ ~hasFile(posts[2].data)
    /\ posts[2].call = 2

\* C17: `loaded` starts false, becomes true only in onload, and no handler
\* sets it back to false.
C17_ReadinessMonotonic ==
    /\ ~loaded
    /\ [][ /\ loaded => loaded'
           /\ (~loaded /\ loaded') => nLoads' = nLoads + 1 ]_vars

\* readiness still holds after a second load event, a rejected post, a failed
\* read, a reply and a later call
C17_Witness ==
    /\ loaded
    /\ nLoads = 2
    /\ \E n \in 1..Len(posts) : posts[n].threw
    /\ \E r \in 1..Len(readers) : FailedReads(r) > 0
    /\ \E k \in Calls : xhrs[k].load = 1
    /\ submitted # <<>> /\ submitted[Len(submitted)] = 2

\* the payloads the direct path of submitRequest handed to postMessage for call k
DirectPayloads(k) ==
    {posts[n].data : n \in {j \in 1..Len(posts) :
                               posts[j].call = k /\ posts[j].via = "submitRequest"}}

\* C18: every payload the direct path hands to postMessage carries the success
\* marker, in object mode and in string mode; in string mode every call handed
\* to submitRequest takes the direct path, and its serialized payload is
\* posted with the marker.
C18_DirectPayloadStamped ==
    /\ \A k \in 1..Len(params) : \A d \in DirectPayloads(k) : d.success
    /\ postStrings =>
          \A i \in 1..Len(submitted) :
              \E d \in DirectPayloads(submitted[i]) : d.str /\ d.success

\* C19: an entry leaves the registry only in the step that processes an array
\* message from the proxy origin whose last element is its token; every other
\* step (a call, a load event, a progress notification, a rejected post, a
\* read that completes or fails, any other message) keeps every entry.
C19_RemovedOnlyByItsReply ==
    [][ \A t \in DOMAIN requests :
            /\ t \notin DOMAIN requests'
                  => ( /\ messageEv'.origin = proxyOrigin
                       /\ messageEv'.data.kind = "array"
                       /\ ~StaysString(messageEv'.data)
                       /\ TokenOf(messageEv'.data) = t )
            /\ t \in DOMAIN requests' => requests'[t] = requests[t] ]_vars

\* the second call never got a reply and is still registered after the reply
\* to the first call, a second load event, a rejected post and a failed read
C19_Witness ==
    /\ Len(params) = 2
    /\ uid(1) \notin DOMAIN requests
    /\ uid(2) \in DOMAIN requests /\ requests[uid(2)] = 2
    /\ nLoads = 2
    /\ \E n \in 1..Len(posts) : posts[n].threw
    /\ ReadFailed(2)

\* C20: the payloads posted to the channel for calls made before readiness
\* appear in the order of the calls: no call is posted before a call made
\* earlier.
C20_PostedInCallOrder ==
    \A m, n \in 1..Len(posts) :
        (m < n /\ ~posts[m].threw /\ ~posts[n].threw) => posts[m].call <= posts[n].call

====
